---- MODULE Spec2Model ----
(***************************************************************************)
(* BME280 driver scaffold: tracked / raw transport wrappers, register      *)
(* access and the driver health state machine (src/src/BME280.cpp,         *)
(* src/include/BME280/BME280.h).                                           *)
(*                                                                         *)
(* The driver object is one state machine.  Its fields are the variables,  *)
(* every public or private operation is one action, and the injected       *)
(* transport capability and millis() are inputs chosen by the environment. *)
(***************************************************************************)
EXTENDS Integers, Sequences, FiniteSets, TLC

\* ------------------------------------------------------------------ bounds

\* Largest offline threshold a caller configures in the model.
MaxThreshold == 3

\* Counted failures and counted successes explored per session.
MaxFailures == 3

MaxSuccess == 2

\* ------------------------------------------------------- program constants

MAX_WRITE_LEN == 16

maxU8 == 255

\* A uint32_t is held as two 16-bit halves, value = hi * 2^16 + lo, so that
\* the counters keep their full width.
Half == 65536

U32(n) == [ hi |-> n \div Half, lo |-> n % Half ]

maxU32 == [ hi |-> Half - 1, lo |-> Half - 1 ]

U32Lt(a, b) == a.hi < b.hi \/ (a.hi = b.hi /\ a.lo < b.lo)

\* ++ on a uint32_t (wraps at 2^32).
U32Inc(a) ==
    IF a.lo = Half - 1
    THEN [ hi |-> (a.hi + 1) % Half, lo |-> 0 ]
    ELSE [ a EXCEPT !.lo = a.lo + 1 ]

CHIP_ID_BME280 == 96

REG_CHIP_ID == 208

\* A null function pointer or user context.
NULL == "nullptr"

\* A byte buffer argument: a null pointer, or a pointer to bytes.
NullBuf == [ null |-> TRUE, bytes |-> << >> ]

Buf(bytes) == [ null |-> FALSE, bytes |-> bytes ]

\* ------------------------------------------------------------ Status / Err

\* Err classifications that exclude a result from health accounting.
ExcludedCodes == {"INVALID_CONFIG", "INVALID_PARAM", "NOT_INITIALIZED"}

Status(code, msg, detail) == [code |-> code, detail |-> detail, msg |-> msg]

StatusOk == Status("OK", "", 0)

StatusError(code, msg) == Status(code, msg, 0)

IsOk(st) == st.code = "OK"

\* Value of the ghost variables for an operation that returns void, and for an
\* operation that did not reach the transport capability.
NoStatus == Status("NONE", "", 0)

\* --------------------------------------------------------------- DriverState

DriverStates == {"UNINIT", "READY", "DEGRADED", "OFFLINE"}

\* ---------------------------------------------------------------- inputs

\* Results the injected transport capability may return.  The capability is
\* caller code: it may return any classification, including the three that
\* the tracked wrappers exclude from health accounting.
TransportResults ==
    { StatusOk,
      Status("I2C_ERROR", "transport", 2),
      Status("TIMEOUT", "transport", 0),
      Status("CHIP_ID_MISMATCH", "transport", 0),
      Status("INVALID_PARAM", "transport", 0),
      Status("INVALID_CONFIG", "transport", 0),
      Status("NOT_INITIALIZED", "transport", 0) }

\* Bytes the write-read capability may leave in the one-byte receive buffer
\* of the identity check: the BME280's identity, or another chip's.
IdBytes == {CHIP_ID_BME280, 88}

\* Values millis() may return.
NowValues == {7}

\* Configurations a caller may pass to begin().
MkConfig(w, wr, addr, tmo, user, thr) ==
    [ i2cWrite |-> w, i2cWriteRead |-> wr, i2cAddress |-> addr,
      i2cTimeoutMs |-> tmo, i2cUser |-> user, offlineThreshold |-> thr ]

Configs ==
    { IF t = 2 THEN MkConfig("wr", "wrrd", 119, 20, "ctx", t)
      ELSE MkConfig("wr", "wrrd", 118, 50, NULL, t) : t \in 0..MaxThreshold }
    \cup { MkConfig(NULL, "wrrd", 118, 50, NULL, 2),
           MkConfig("wr", NULL, 118, 50, NULL, 2),
           MkConfig(NULL, NULL, 119, 50, NULL, 1),
           MkConfig("wr", "wrrd", 118, 0, NULL, 2) }

\* A default-constructed Config: no capability set.
DefaultConfig == MkConfig(NULL, NULL, 118, 50, NULL, 5)

\* ------------------------------------------------------------------ state

VARIABLES
    config,               \* _config
    initialized,          \* _initialized
    driverState,          \* _driverState
    lastOkMs,             \* _lastOkMs
    lastErrorMs,          \* _lastErrorMs
    lastError,            \* _lastError
    consecutiveFailures,  \* _consecutiveFailures
    totalFailures,        \* _totalFailures
    totalSuccess,         \* _totalSuccess
    lastOp,               \* ghost: the operation called last
    lastArgs,             \* ghost: the arguments it was called with
    prevState,            \* ghost: _driverState when it was called
    lastResult,           \* ghost: the Status it returned (NoStatus: void)
    lastOutcome,          \* ghost: what the transport capability returned to it
    busCalls,             \* ghost: transport capability invocations it made
    lastFrame,            \* ghost: the transaction the capability was given
    run,                  \* ghost: shape of the tracked outcomes since begin()
    sessionCfg            \* ghost: the Config given to the last begin() that returned ok

healthVars ==
    << driverState, lastOkMs, lastErrorMs, lastError,
       consecutiveFailures, totalFailures, totalSuccess >>

ghostVars ==
    << lastOp, lastArgs, prevState, lastResult, lastOutcome, busCalls,
       lastFrame, run, sessionCfg >>

vars == << config, initialized, healthVars, ghostVars >>

\* The health fields as one value, for the operators that compute them.
Health ==
    [ driverState |-> driverState, lastOkMs |-> lastOkMs,
      lastErrorMs |-> lastErrorMs, lastError |-> lastError,
      consecutiveFailures |-> consecutiveFailures,
      totalFailures |-> totalFailures, totalSuccess |-> totalSuccess ]

ZeroHealth ==
    [ driverState |-> "UNINIT", lastOkMs |-> 0, lastErrorMs |-> 0,
      lastError |-> StatusOk, consecutiveFailures |-> 0,
      totalFailures |-> U32(0), totalSuccess |-> U32(0) ]

SetHealth(h) ==
    /\ driverState' = h.driverState
    /\ lastOkMs' = h.lastOkMs
    /\ lastErrorMs' = h.lastErrorMs
    /\ lastError' = h.lastError
    /\ consecutiveFailures' = h.consecutiveFailures
    /\ totalFailures' = h.totalFailures
    /\ totalSuccess' = h.totalSuccess

\* ------------------------------------------------------ health state machine

\* Mutant of SatInc32: the increment is not guarded and wraps.
SatInc32_wrap(a) == U32Inc(a)

\* if (n < max) n++, on a uint8_t and on a uint32_t.
SatInc8(n) == IF n < maxU8 THEN n + 1 ELSE n

SatInc32(a) == IF U32Lt(a, maxU32) THEN U32Inc(a) ELSE a

\* Mutant of updateHealth: a success does not reset the failure streak.
updateHealth_keepStreak(h, init, cfg, st, now) ==
    IF ~init THEN h
    ELSE IF IsOk(st) THEN
        [ h EXCEPT !.lastOkMs = now,
                   !.totalSuccess = SatInc32(h.totalSuccess),
                   !.driverState = "READY" ]
    ELSE
        LET cf == SatInc8(h.consecutiveFailures) IN
        [ h EXCEPT !.lastError = st,
                   !.lastErrorMs = now,
                   !.totalFailures = SatInc32(h.totalFailures),
                   !.consecutiveFailures = cf,
                   !.driverState = IF cf >= cfg.offlineThreshold
                                   THEN "OFFLINE" ELSE "DEGRADED" ]

\* Mutant of updateHealth: the threshold comparison is > instead of >=.
updateHealth_gt(h, init, cfg, st, now) ==
    IF ~init THEN h
    ELSE IF IsOk(st) THEN
        [ h EXCEPT !.lastOkMs = now,
                   !.totalSuccess = SatInc32(h.totalSuccess),
                   !.consecutiveFailures = 0,
                   !.driverState = "READY" ]
    ELSE
        LET cf == SatInc8(h.consecutiveFailures) IN
        [ h EXCEPT !.lastError = st,
                   !.lastErrorMs = now,
                   !.totalFailures = SatInc32(h.totalFailures),
                   !.consecutiveFailures = cf,
                   !.driverState = IF cf > cfg.offlineThreshold
                                   THEN "OFFLINE" ELSE "DEGRADED" ]

\* Mutant of updateHealth: the last-error record keeps the first failure of
\* the session instead of the latest.
updateHealth_firstErr(h, init, cfg, st, now) ==
    IF ~init THEN h
    ELSE IF IsOk(st) THEN
        [ h EXCEPT !.lastOkMs = now,
                   !.totalSuccess = SatInc32(h.totalSuccess),
                   !.consecutiveFailures = 0,
                   !.driverState = "READY" ]
    ELSE
        LET cf == SatInc8(h.consecutiveFailures) IN
        [ h EXCEPT !.lastError = IF IsOk(h.lastError) THEN st ELSE @,
                   !.lastErrorMs = IF IsOk(h.lastError) THEN now ELSE @,
                   !.totalFailures = SatInc32(h.totalFailures),
                   !.consecutiveFailures = cf,
                   !.driverState = IF cf >= cfg.offlineThreshold
                                   THEN "OFFLINE" ELSE "DEGRADED" ]

\* Mutant of updateHealth: the state is OFFLINE only when the streak equals
\* the threshold.
updateHealth_eq(h, init, cfg, st, now) ==
    IF ~init THEN h
    ELSE IF IsOk(st) THEN
        [ h EXCEPT !.lastOkMs = now,
                   !.totalSuccess = SatInc32(h.totalSuccess),
                   !.consecutiveFailures = 0,
                   !.driverState = "READY" ]
    ELSE
        LET cf == SatInc8(h.consecutiveFailures) IN
        [ h EXCEPT !.lastError = st,
                   !.lastErrorMs = now,
                   !.totalFailures = SatInc32(h.totalFailures),
                   !.consecutiveFailures = cf,
                   !.driverState = IF cf = cfg.offlineThreshold
                                   THEN "OFFLINE" ELSE "DEGRADED" ]

\* Mutant of updateHealth: a success also clears the last-error record.
updateHealth_clearErr(h, init, cfg, st, now) ==
    IF ~init THEN h
    ELSE IF IsOk(st) THEN
        [ h EXCEPT !.lastOkMs = now,
                   !.totalSuccess = SatInc32(h.totalSuccess),
                   !.consecutiveFailures = 0,
                   !.driverState = "READY",
                   !.lastError = StatusOk,
                   !.lastErrorMs = 0 ]
    ELSE
        LET cf == SatInc8(h.consecutiveFailures) IN
        [ h EXCEPT !.lastError = st,
                   !.lastErrorMs = now,
                   !.totalFailures = SatInc32(h.totalFailures),
                   !.consecutiveFailures = cf,
                   !.driverState = IF cf >= cfg.offlineThreshold
                                   THEN "OFFLINE" ELSE "DEGRADED" ]

\* BME280::_updateHealth: the health fields after the tracked result st at
\* time now.  The returned status is st itself.
updateHealth(h, init, cfg, st, now) ==
    IF ~init THEN h
    ELSE IF IsOk(st) THEN
        [ h EXCEPT !.lastOkMs = now,
                   !.totalSuccess = SatInc32(h.totalSuccess),
                   !.consecutiveFailures = 0,
                   !.driverState = "READY" ]
    ELSE
        LET cf == SatInc8(h.consecutiveFailures) IN
        [ h EXCEPT !.lastError = st,
                   !.lastErrorMs = now,
                   !.totalFailures = SatInc32(h.totalFailures),
                   !.consecutiveFailures = cf,
                   !.driverState = IF cf >= cfg.offlineThreshold
                                   THEN "OFFLINE" ELSE "DEGRADED" ]

\* -------------------------------------------------------- transport wrappers

\* One invocation of a transport capability, as the capability sees it.
NoFrame == [ kind |-> "none" ]

Frame(kind, cfg, tx, rxLen) ==
    [ kind |-> kind, addr |-> cfg.i2cAddress, tx |-> tx, rxLen |-> rxLen,
      timeoutMs |-> cfg.i2cTimeoutMs, user |-> cfg.i2cUser ]

\* What a wrapper hands back: the status, the health fields afterwards, the
\* number of capability invocations, the capability's own result and the
\* transaction it was given.
Ret(st, h, calls, outcome, frame) ==
    [ st |-> st, h |-> h, calls |-> calls, outcome |-> outcome, frame |-> frame ]

\* A return before any capability is reached.
Early(st, h) == Ret(st, h, 0, NoStatus, NoFrame)

\* The first len bytes of a buffer.
Bytes(buf, len) == SubSeq(buf.bytes, 1, len)

\* BME280::_i2cWriteReadRaw: tr is what the capability returns when invoked.
i2cWriteReadRaw(h, cfg, txBuf, txLen, rxBuf, rxLen, tr) ==
    IF cfg.i2cWriteRead = NULL
    THEN Early(StatusError("INVALID_CONFIG", "I2C write-read not set"), h)
    ELSE Ret(tr, h, 1, tr, Frame("writeRead", cfg, Bytes(txBuf, txLen), rxLen))

\* BME280::_i2cWriteRaw
i2cWriteRaw(h, cfg, buf, len, tr) ==
    IF cfg.i2cWrite = NULL
    THEN Early(StatusError("INVALID_CONFIG", "I2C write not set"), h)
    ELSE Ret(tr, h, 1, tr, Frame("write", cfg, Bytes(buf, len), 0))

\* Mutant of i2cWriteReadTracked: a timeout is left out of health accounting
\* like the three precondition failures.
i2cWriteReadTracked_skipTimeout(h, init, cfg, txBuf, txLen, rxBuf, rxLen, tr, now) ==
    IF ~init
    THEN Early(StatusError("NOT_INITIALIZED", "begin() not called"), h)
    ELSE IF txBuf = NullBuf \/ txLen = 0 \/ (rxLen > 0 /\ rxBuf = NullBuf)
    THEN Early(StatusError("INVALID_PARAM", "Invalid I2C buffer"), h)
    ELSE LET r == i2cWriteReadRaw(h, cfg, txBuf, txLen, rxBuf, rxLen, tr) IN
         IF r.st.code \in ExcludedCodes \cup {"TIMEOUT"}
         THEN r
         ELSE [ r EXCEPT !.h = updateHealth(h, init, cfg, r.st, now) ]

\* Mutant of i2cWriteReadTracked: every result of the capability is counted.
i2cWriteReadTracked_countAll(h, init, cfg, txBuf, txLen, rxBuf, rxLen, tr, now) ==
    IF ~init
    THEN Early(StatusError("NOT_INITIALIZED", "begin() not called"), h)
    ELSE IF txBuf = NullBuf \/ txLen = 0 \/ (rxLen > 0 /\ rxBuf = NullBuf)
    THEN Early(StatusError("INVALID_PARAM", "Invalid I2C buffer"), h)
    ELSE LET r == i2cWriteReadRaw(h, cfg, txBuf, txLen, rxBuf, rxLen, tr) IN
         [ r EXCEPT !.h = updateHealth(h, init, cfg, r.st, now) ]

\* Mutant of i2cWriteReadTracked: an OFFLINE driver refuses the transaction
\* without trying the bus.
i2cWriteReadTracked_gated(h, init, cfg, txBuf, txLen, rxBuf, rxLen, tr, now) ==
    IF ~init
    THEN Early(StatusError("NOT_INITIALIZED", "begin() not called"), h)
    ELSE IF txBuf = NullBuf \/ txLen = 0 \/ (rxLen > 0 /\ rxBuf = NullBuf)
    THEN Early(StatusError("INVALID_PARAM", "Invalid I2C buffer"), h)
    ELSE IF h.driverState = "OFFLINE"
    THEN Early(StatusError("BUSY", "Device offline"), h)
    ELSE LET r == i2cWriteReadRaw(h, cfg, txBuf, txLen, rxBuf, rxLen, tr) IN
         IF r.st.code \in ExcludedCodes
         THEN r
         ELSE [ r EXCEPT !.h = updateHealth(h, init, cfg, r.st, now) ]

\* BME280::_i2cWriteReadTracked
i2cWriteReadTracked(h, init, cfg, txBuf, txLen, rxBuf, rxLen, tr, now) ==
    IF ~init
    THEN Early(StatusError("NOT_INITIALIZED", "begin() not called"), h)
    ELSE IF txBuf = NullBuf \/ txLen = 0 \/ (rxLen > 0 /\ rxBuf = NullBuf)
    THEN Early(StatusError("INVALID_PARAM", "Invalid I2C buffer"), h)
    ELSE LET r == i2cWriteReadRaw(h, cfg, txBuf, txLen, rxBuf, rxLen, tr) IN
         IF r.st.code \in ExcludedCodes
         THEN r
         ELSE [ r EXCEPT !.h = updateHealth(h, init, cfg, r.st, now) ]

\* Mutant of i2cWriteTracked: a failure is handed back as a new error of the
\* same classification, without the capability's detail and message.
i2cWriteTracked_rewrap(h, init, cfg, buf, len, tr, now) ==
    IF ~init
    THEN Early(StatusError("NOT_INITIALIZED", "begin() not called"), h)
    ELSE IF buf = NullBuf \/ len = 0
    THEN Early(StatusError("INVALID_PARAM", "Invalid I2C buffer"), h)
    ELSE LET r == i2cWriteRaw(h, cfg, buf, len, tr) IN
         IF r.st.code \in ExcludedCodes
         THEN r
         ELSE [ r EXCEPT !.h = updateHealth(h, init, cfg, r.st, now),
                         !.st = IF IsOk(r.st) THEN r.st
                                ELSE StatusError(r.st.code, "I2C write failed") ]

\* BME280::_i2cWriteTracked
i2cWriteTracked(h, init, cfg, buf, len, tr, now) ==
    IF ~init
    THEN Early(StatusError("NOT_INITIALIZED", "begin() not called"), h)
    ELSE IF buf = NullBuf \/ len = 0
    THEN Early(StatusError("INVALID_PARAM", "Invalid I2C buffer"), h)
    ELSE LET r == i2cWriteRaw(h, cfg, buf, len, tr) IN
         IF r.st.code \in ExcludedCodes
         THEN r
         ELSE [ r EXCEPT !.h = updateHealth(h, init, cfg, r.st, now) ]

\* ------------------------------------------------------- public operations

\* The tail shared by probe() and recover(): the identity byte is compared
\* only after the transport reported ok.
checkChipId(r, id) ==
    IF ~IsOk(r.st) THEN r
    ELSE IF id # CHIP_ID_BME280
    THEN [ r EXCEPT !.st = Status("CHIP_ID_MISMATCH", "Chip ID mismatch", id) ]
    ELSE [ r EXCEPT !.st = StatusOk ]

\* Mutant of probe: the identity check goes through the tracked transport.
probe_tracked(h, init, cfg, tr, id) ==
    IF ~init
    THEN Early(StatusError("NOT_INITIALIZED", "begin() not called"), h)
    ELSE checkChipId(
             i2cWriteReadTracked(h, init, cfg, Buf(<<REG_CHIP_ID>>), 1, Buf(<<0>>), 1,
                                 tr, CHOOSE now \in NowValues : TRUE),
             id)

\* Mutant of probe: the initialization check is missing.
probe_noInitCheck(h, init, cfg, tr, id) ==
    checkChipId(i2cWriteReadRaw(h, cfg, Buf(<<REG_CHIP_ID>>), 1, Buf(<<0>>), 1, tr), id)

\* BME280::probe: identity check over the raw transport.
probe(h, init, cfg, tr, id) ==
    IF ~init
    THEN Early(StatusError("NOT_INITIALIZED", "begin() not called"), h)
    ELSE checkChipId(i2cWriteReadRaw(h, cfg, Buf(<<REG_CHIP_ID>>), 1, Buf(<<0>>), 1, tr), id)

\* BME280::recover: the same identity check over the tracked transport.
recover(h, init, cfg, tr, id, now) ==
    IF ~init
    THEN Early(StatusError("NOT_INITIALIZED", "begin() not called"), h)
    ELSE checkChipId(
             i2cWriteReadTracked(h, init, cfg, Buf(<<REG_CHIP_ID>>), 1, Buf(<<0>>), 1, tr, now),
             id)

\* BME280::readRegs
readRegs(h, init, cfg, startReg, buf, len, tr, now) ==
    IF ~init
    THEN Early(StatusError("NOT_INITIALIZED", "begin() not called"), h)
    ELSE IF buf = NullBuf \/ len = 0
    THEN Early(StatusError("INVALID_PARAM", "Invalid read buffer"), h)
    ELSE i2cWriteReadTracked(h, init, cfg, Buf(<<startReg>>), 1, buf, len, tr, now)

\* The framing buffer of writeRegs: MAX_WRITE_LEN + 1 zero bytes, then the
\* start register at index 0 and len bytes of buf copied behind it.
payloadOf(startReg, buf, len) ==
    Buf([ i \in 1..(MAX_WRITE_LEN + 1) |->
            IF i = 1 THEN startReg
            ELSE IF i <= len + 1 THEN buf.bytes[i - 1]
            ELSE 0 ])

\* Mutant of writeRegs: the transaction is given the payload length, without
\* the byte of the start address.
writeRegs_shortLen(h, init, cfg, startReg, buf, len, tr, now) ==
    IF ~init
    THEN Early(StatusError("NOT_INITIALIZED", "begin() not called"), h)
    ELSE IF buf = NullBuf \/ len = 0
    THEN Early(StatusError("INVALID_PARAM", "Invalid write buffer"), h)
    ELSE IF len > MAX_WRITE_LEN
    THEN Early(StatusError("INVALID_PARAM", "Write length too large"), h)
    ELSE i2cWriteTracked(h, init, cfg, payloadOf(startReg, buf, len), len, tr, now)

\* Mutant of writeRegs: the payload bound is checked with >= instead of >.
writeRegs_ge(h, init, cfg, startReg, buf, len, tr, now) ==
    IF ~init
    THEN Early(StatusError("NOT_INITIALIZED", "begin() not called"), h)
    ELSE IF buf = NullBuf \/ len = 0
    THEN Early(StatusError("INVALID_PARAM", "Invalid write buffer"), h)
    ELSE IF len >= MAX_WRITE_LEN
    THEN Early(StatusError("INVALID_PARAM", "Write length too large"), h)
    ELSE i2cWriteTracked(h, init, cfg, payloadOf(startReg, buf, len), len + 1, tr, now)

\* BME280::writeRegs
writeRegs(h, init, cfg, startReg, buf, len, tr, now) ==
    IF ~init
    THEN Early(StatusError("NOT_INITIALIZED", "begin() not called"), h)
    ELSE IF buf = NullBuf \/ len = 0
    THEN Early(StatusError("INVALID_PARAM", "Invalid write buffer"), h)
    ELSE IF len > MAX_WRITE_LEN
    THEN Early(StatusError("INVALID_PARAM", "Write length too large"), h)
    ELSE i2cWriteTracked(h, init, cfg, payloadOf(startReg, buf, len), len + 1, tr, now)

\* Mutant of begin: a successful begin leaves the last-error record of the
\* previous session in place.
begin_keepLastError(c) ==
    IF c.i2cWrite = NULL \/ c.i2cWriteRead = NULL
    THEN [ st |-> StatusError("INVALID_CONFIG", "I2C callbacks not set"),
           config |-> config, initialized |-> FALSE, h |-> ZeroHealth ]
    ELSE IF c.i2cTimeoutMs = 0
    THEN [ st |-> StatusError("INVALID_CONFIG", "I2C timeout must be > 0"),
           config |-> config, initialized |-> FALSE, h |-> ZeroHealth ]
    ELSE [ st |-> StatusOk,
           config |-> [ c EXCEPT !.offlineThreshold =
                                   IF c.offlineThreshold = 0 THEN 1
                                   ELSE c.offlineThreshold ],
           initialized |-> TRUE,
           h |-> [ ZeroHealth EXCEPT !.driverState = "READY",
                                     !.lastError = lastError,
                                     !.lastErrorMs = lastErrorMs ] ]

\* Mutant of begin: the configuration is validated before anything is reset,
\* so a rejected configuration leaves the driver as it was.
begin_validateFirst(c) ==
    IF c.i2cWrite = NULL \/ c.i2cWriteRead = NULL
    THEN [ st |-> StatusError("INVALID_CONFIG", "I2C callbacks not set"),
           config |-> config, initialized |-> initialized, h |-> Health ]
    ELSE IF c.i2cTimeoutMs = 0
    THEN [ st |-> StatusError("INVALID_CONFIG", "I2C timeout must be > 0"),
           config |-> config, initialized |-> initialized, h |-> Health ]
    ELSE [ st |-> StatusOk,
           config |-> [ c EXCEPT !.offlineThreshold =
                                   IF c.offlineThreshold = 0 THEN 1
                                   ELSE c.offlineThreshold ],
           initialized |-> TRUE,
           h |-> [ ZeroHealth EXCEPT !.driverState = "READY" ] ]

\* Mutant of begin: the configuration is stored as given, a zero offline
\* threshold included.
begin_noCoerce(c) ==
    IF c.i2cWrite = NULL \/ c.i2cWriteRead = NULL
    THEN [ st |-> StatusError("INVALID_CONFIG", "I2C callbacks not set"),
           config |-> config, initialized |-> FALSE, h |-> ZeroHealth ]
    ELSE IF c.i2cTimeoutMs = 0
    THEN [ st |-> StatusError("INVALID_CONFIG", "I2C timeout must be > 0"),
           config |-> config, initialized |-> FALSE, h |-> ZeroHealth ]
    ELSE [ st |-> StatusOk,
           config |-> c,
           initialized |-> TRUE,
           h |-> [ ZeroHealth EXCEPT !.driverState = "READY" ] ]

\* Mutant of begin: the configuration is stored before it is validated.
begin_commitFirst(c) ==
    IF c.i2cWrite = NULL \/ c.i2cWriteRead = NULL
    THEN [ st |-> StatusError("INVALID_CONFIG", "I2C callbacks not set"),
           config |-> c, initialized |-> FALSE, h |-> ZeroHealth ]
    ELSE IF c.i2cTimeoutMs = 0
    THEN [ st |-> StatusError("INVALID_CONFIG", "I2C timeout must be > 0"),
           config |-> c, initialized |-> FALSE, h |-> ZeroHealth ]
    ELSE [ st |-> StatusOk,
           config |-> [ c EXCEPT !.offlineThreshold =
                                     IF @ = 0 THEN 1 ELSE @ ],
           initialized |-> TRUE,
           h |-> [ ZeroHealth EXCEPT !.driverState = "READY" ] ]

\* BME280::begin: the fields after the call and the status returned.
begin(c) ==
    IF c.i2cWrite = NULL \/ c.i2cWriteRead = NULL
    THEN [ st |-> StatusError("INVALID_CONFIG", "I2C callbacks not set"),
           config |-> config, initialized |-> FALSE, h |-> ZeroHealth ]
    ELSE IF c.i2cTimeoutMs = 0
    THEN [ st |-> StatusError("INVALID_CONFIG", "I2C timeout must be > 0"),
           config |-> config, initialized |-> FALSE, h |-> ZeroHealth ]
    ELSE [ st |-> StatusOk,
           config |-> [ c EXCEPT !.offlineThreshold =
                                   IF c.offlineThreshold = 0 THEN 1
                                   ELSE c.offlineThreshold ],
           initialized |-> TRUE,
           h |-> [ ZeroHealth EXCEPT !.driverState = "READY" ] ]

\* ----------------------------------------------------------- caller inputs

\* The caller's buffer: it holds the bytes 1, 2, 3, ... and is long enough
\* for every length passed with it.
CallerBuf == Buf([ i \in 1..(MAX_WRITE_LEN + 1) |-> i ])

\* (startReg, buf, len) as a caller passes them to readRegs and writeRegs: a
\* null buffer, no bytes, one byte, the largest write and one byte beyond it.
CallerArgs ==
    { << REG_CHIP_ID, NullBuf, 1 >>,
      << REG_CHIP_ID, CallerBuf, 0 >>,
      << REG_CHIP_ID, CallerBuf, 1 >>,
      << 244, CallerBuf, MAX_WRITE_LEN >>,
      << 244, CallerBuf, MAX_WRITE_LEN + 1 >> }

\* The lifetime counters two steps before their largest value.
NearMax == [ hi |-> Half - 1, lo |-> Half - 3 ]

\* The model explores at most MaxSuccess counted successes and MaxFailures
\* counted failures per session: a transport result that would count beyond
\* that is not drawn.  A session that has run up to the end of the counters'
\* range is explored there too: successes once totalSuccess is within two of
\* its maximum, failures once totalFailures is, as long as the failure streak
\* is short or at the end of its own range.
WithinBudget(tr) ==
    \/ tr.code \in ExcludedCodes
    \/ IsOk(tr) /\ (\/ U32Lt(totalSuccess, U32(MaxSuccess))
                    \/ ~U32Lt(totalSuccess, NearMax))
    \/ ~IsOk(tr) /\ tr.code \notin ExcludedCodes
       /\ (\/ U32Lt(totalFailures, U32(MaxFailures))
           \/ /\ ~U32Lt(totalFailures, NearMax)
              /\ (consecutiveFailures < MaxFailures
                  \/ consecutiveFailures >= maxU8 - 1))

\* ------------------------------------------------------------ ghost state

\* run records the tracked transport outcomes since the last begin() that
\* returned ok, as far as they have the shape F^n or F^n S, where F is a
\* bus-error or timeout and S a success.
RunNone == [ phase |-> "none", n |-> 0 ]

RunFresh == [ phase |-> "fails", n |-> 0 ]

RunAfter(r, calls, tr) ==
    IF calls = 0 \/ tr.code \in ExcludedCodes \/ r.phase = "none" THEN r
    ELSE IF tr.code \in {"I2C_ERROR", "TIMEOUT"} /\ r.phase = "fails"
    THEN [ r EXCEPT !.n = r.n + 1 ]
    ELSE IF IsOk(tr) /\ r.phase = "fails"
    THEN [ r EXCEPT !.phase = "failsOk" ]
    ELSE [ phase |-> "other", n |-> 0 ]

\* The arguments of an operation, as the ghost variable lastArgs holds them.
NoArgs == [ kind |-> "none" ]

BeginArgs(c) == [ kind |-> "config", cfg |-> c ]

RegArgs(a) == [ kind |-> "regs", startReg |-> a[1], buf |-> a[2], len |-> a[3] ]

TickArgs(nowMs) == [ kind |-> "now", nowMs |-> nowMs ]

\* Timestamps a caller may pass to tick().
TickValues == {0, 7}

\* The ghost variables after an operation op, called with args, that handed
\* back r; tracked says whether op goes through a tracked transport wrapper.
Record(op, args, r, tracked) ==
    /\ lastOp' = op
    /\ lastArgs' = args
    /\ prevState' = driverState
    /\ lastResult' = r.st
    /\ lastOutcome' = r.outcome
    /\ busCalls' = r.calls
    /\ lastFrame' = r.frame
    /\ run' = IF tracked THEN RunAfter(run, r.calls, r.outcome) ELSE run
    /\ sessionCfg' = sessionCfg

\* ------------------------------------------------------------------ actions

Init ==
    /\ config = DefaultConfig
    /\ initialized = FALSE
    /\ driverState = "UNINIT"
    /\ lastOkMs = 0
    /\ lastErrorMs = 0
    /\ lastError = StatusOk
    /\ consecutiveFailures = 0
    /\ totalFailures = U32(0)
    /\ totalSuccess = U32(0)
    /\ lastOp = "none"
    /\ lastArgs = NoArgs
    /\ prevState = "UNINIT"
    /\ lastResult = NoStatus
    /\ lastOutcome = NoStatus
    /\ busCalls = 0
    /\ lastFrame = NoFrame
    /\ run = RunNone
    /\ sessionCfg = DefaultConfig

\* A driver that has been in operation for a long time: a session with
\* threshold 3 that counted 2^32 - 2 successes and then failures only, the
\* last of them a readRegs that timed out.
LongRunConfig == MkConfig("wr", "wrrd", 118, 50, NULL, 3)

InitSat ==
    /\ config = LongRunConfig
    /\ initialized = TRUE
    /\ driverState = "OFFLINE"
    /\ lastOkMs = 7
    /\ lastErrorMs = 7
    /\ lastError = Status("TIMEOUT", "transport", 0)
    /\ consecutiveFailures = maxU8 - 1
    /\ totalFailures = NearMax
    /\ totalSuccess = U32Inc(NearMax)
    /\ lastOp = "readRegs"
    /\ lastArgs = RegArgs(<< REG_CHIP_ID, CallerBuf, 1 >>)
    /\ prevState = "OFFLINE"
    /\ lastResult = Status("TIMEOUT", "transport", 0)
    /\ lastOutcome = Status("TIMEOUT", "transport", 0)
    /\ busCalls = 1
    /\ lastFrame = Frame("writeRead", LongRunConfig, << REG_CHIP_ID >>, 1)
    /\ run = [ phase |-> "other", n |-> 0 ]
    /\ sessionCfg = LongRunConfig

Begin ==
    \E c \in Configs :
        LET b == begin(c) IN
        /\ config' = b.config
        /\ initialized' = b.initialized
        /\ SetHealth(b.h)
        /\ lastOp' = "begin"
        /\ lastArgs' = BeginArgs(c)
        /\ prevState' = driverState
        /\ lastResult' = b.st
        /\ lastOutcome' = NoStatus
        /\ busCalls' = 0
        /\ lastFrame' = NoFrame
        /\ run' = IF IsOk(b.st) THEN RunFresh ELSE RunNone
        /\ sessionCfg' = IF IsOk(b.st) THEN c ELSE sessionCfg

\* Mutant of Tick: the call stamps the time of the last success.
Tick_stamp ==
    \E nowMs \in TickValues :
        /\ lastOp' = "tick"
        /\ lastArgs' = TickArgs(nowMs)
        /\ prevState' = driverState
        /\ lastResult' = NoStatus
        /\ lastOutcome' = NoStatus
        /\ busCalls' = 0
        /\ lastFrame' = NoFrame
        /\ lastOkMs' = nowMs
        /\ UNCHANGED << config, initialized, driverState, lastErrorMs,
                        lastError, consecutiveFailures, totalFailures,
                        totalSuccess, run, sessionCfg >>

\* BME280::tick: an empty body.
Tick ==
    \E nowMs \in TickValues :
        /\ lastOp' = "tick"
        /\ lastArgs' = TickArgs(nowMs)
        /\ prevState' = driverState
        /\ lastResult' = NoStatus
        /\ lastOutcome' = NoStatus
        /\ busCalls' = 0
        /\ lastFrame' = NoFrame
        /\ UNCHANGED << config, initialized, healthVars, run, sessionCfg >>

\* Mutant of End: shutting down also clears the health counters.
End_clears ==
    /\ initialized' = FALSE
    /\ SetHealth(ZeroHealth)
    /\ lastOp' = "end"
    /\ lastArgs' = NoArgs
    /\ prevState' = driverState
    /\ lastResult' = NoStatus
    /\ lastOutcome' = NoStatus
    /\ busCalls' = 0
    /\ lastFrame' = NoFrame
    /\ run' = RunNone
    /\ UNCHANGED << config, sessionCfg >>

\* Mutant of End: shutting down clears the initialized flag and leaves the
\* health state as it was.
End_keepState ==
    /\ initialized' = FALSE
    /\ lastOp' = "end"
    /\ lastArgs' = NoArgs
    /\ prevState' = driverState
    /\ lastResult' = NoStatus
    /\ lastOutcome' = NoStatus
    /\ busCalls' = 0
    /\ lastFrame' = NoFrame
    /\ run' = RunNone
    /\ UNCHANGED << config, healthVars, sessionCfg >>

\* BME280::end
End ==
    /\ initialized' = FALSE
    /\ driverState' = "UNINIT"
    /\ lastOp' = "end"
    /\ lastArgs' = NoArgs
    /\ prevState' = driverState
    /\ lastResult' = NoStatus
    /\ lastOutcome' = NoStatus
    /\ busCalls' = 0
    /\ lastFrame' = NoFrame
    /\ run' = RunNone
    /\ UNCHANGED << config, lastOkMs, lastErrorMs, lastError,
                    consecutiveFailures, totalFailures, totalSuccess,
                    sessionCfg >>

Probe ==
    \E tr \in TransportResults, id \in IdBytes :
        LET r == probe(Health, initialized, config, tr, id) IN
        /\ SetHealth(r.h)
        /\ Record("probe", NoArgs, r, FALSE)
        /\ UNCHANGED << config, initialized >>

Recover ==
    \E tr \in TransportResults, id \in IdBytes, now \in NowValues :
        LET r == recover(Health, initialized, config, tr, id, now) IN
        /\ WithinBudget(tr)
        /\ SetHealth(r.h)
        /\ Record("recover", NoArgs, r, TRUE)
        /\ UNCHANGED << config, initialized >>

ReadRegs ==
    \E a \in CallerArgs, tr \in TransportResults, now \in NowValues :
        LET r == readRegs(Health, initialized, config, a[1], a[2], a[3], tr, now) IN
        /\ WithinBudget(tr)
        /\ SetHealth(r.h)
        /\ Record("readRegs", RegArgs(a), r, TRUE)
        /\ UNCHANGED << config, initialized >>

WriteRegs ==
    \E a \in CallerArgs, tr \in TransportResults, now \in NowValues :
        LET r == writeRegs(Health, initialized, config, a[1], a[2], a[3], tr, now) IN
        /\ WithinBudget(tr)
        /\ SetHealth(r.h)
        /\ Record("writeRegs", RegArgs(a), r, TRUE)
        /\ UNCHANGED << config, initialized >>

Next ==
    \/ Begin
    \/ Tick
    \/ End
    \/ Probe
    \/ Recover
    \/ ReadRegs
    \/ WriteRegs

Spec == Init /\ [][Next]_vars

\* The same driver, observed from late in a long session.
SpecSat == InitSat /\ [][Next]_vars

\* =================================================================== claims

\* The operations that go through a tracked transport wrapper.
TrackedOps == {"recover", "readRegs", "writeRegs"}

ValidConfig(c) ==
    c.i2cWrite # NULL /\ c.i2cWriteRead # NULL /\ c.i2cTimeoutMs > 0

CountersZero ==
    /\ consecutiveFailures = 0
    /\ totalFailures = U32(0)
    /\ totalSuccess = U32(0)
    /\ lastOkMs = 0
    /\ lastErrorMs = 0
    /\ lastError = StatusOk

\* C1: whenever the driver is initialized, the health state agrees with the
\* consecutive-failure count and the stored offline threshold: READY iff the
\* count is 0, DEGRADED iff 1 <= count < threshold, OFFLINE iff
\* count >= threshold.
C1_StateAgreesWithCount ==
    initialized =>
        /\ (driverState = "READY") <=> (consecutiveFailures = 0)
        /\ (driverState = "DEGRADED") <=>
               (1 <= consecutiveFailures /\ consecutiveFailures < config.offlineThreshold)
        /\ (driverState = "OFFLINE") <=>
               (consecutiveFailures >= config.offlineThreshold)

\* C1 witness: an initialized driver past its threshold, and it has seen a
\* success before the failures.
C1_Witness ==
    /\ initialized
    /\ driverState = "OFFLINE"
    /\ consecutiveFailures > config.offlineThreshold
    /\ totalSuccess # U32(0)

\* C2: begin() with a valid configuration returns ok from any prior state, and
\* right afterwards the state is READY, every counter and timestamp is 0 and
\* the last error is ok.
C2_BeginValid ==
    (lastOp = "begin" /\ ValidConfig(lastArgs.cfg)) =>
        /\ lastResult = StatusOk
        /\ initialized
        /\ driverState = "READY"
        /\ CountersZero

\* C2 witness: a valid begin() on a driver that was OFFLINE.
C2_Witness ==
    /\ lastOp = "begin"
    /\ ValidConfig(lastArgs.cfg)
    /\ prevState = "OFFLINE"
    /\ driverState = "READY"

\* C3: begin() with an invalid configuration returns invalid-configuration
\* from any prior state, and afterwards the driver is not initialized, the
\* state is UNINIT and no counter of the prior session survives.
C3_BeginInvalid ==
    (lastOp = "begin" /\ ~ValidConfig(lastArgs.cfg)) =>
        /\ lastResult.code = "INVALID_CONFIG"
        /\ ~initialized
        /\ driverState = "UNINIT"
        /\ CountersZero

\* C3 witness: a rejected begin() (timeout 0) on a driver that was DEGRADED,
\* hence with non-zero counters.
C3_Witness ==
    /\ lastOp = "begin"
    /\ lastArgs.cfg.i2cTimeoutMs = 0
    /\ prevState = "DEGRADED"
    /\ lastResult.code = "INVALID_CONFIG"

\* C4: after a successful begin() with stored threshold T and then N tracked
\* bus-error or timeout outcomes, 1 <= N < T, with no tracked success:
\* consecutiveFailures = N, state DEGRADED, totalFailures = N, totalSuccess = 0.
C4_FailuresBelowThreshold ==
    (run.phase = "fails" /\ 1 <= run.n /\ run.n < config.offlineThreshold) =>
        /\ consecutiveFailures = run.n
        /\ driverState = "DEGRADED"
        /\ totalFailures = U32(run.n)
        /\ totalSuccess = U32(0)

\* C4 witness: two failures under threshold 3.
C4_Witness ==
    /\ run = [ phase |-> "fails", n |-> 2 ]
    /\ config.offlineThreshold = 3
    /\ driverState = "DEGRADED"

\* C5: after a successful begin() with stored threshold T, exactly T tracked
\* failures give OFFLINE with consecutiveFailures = totalFailures = T (and
\* DEGRADED after T-1 of them when T > 1); one tracked success after them
\* gives READY, consecutiveFailures = 0, totalSuccess = 1, totalFailures = T.
C5_ThresholdCrossing ==
    LET T == config.offlineThreshold IN
    /\ (run.phase = "fails" /\ run.n = T) =>
           /\ driverState = "OFFLINE"
           /\ consecutiveFailures = T
           /\ totalFailures = U32(T)
    /\ (run.phase = "fails" /\ T > 1 /\ run.n = T - 1) =>
           driverState = "DEGRADED"
    /\ (run.phase = "failsOk" /\ run.n = T) =>
           /\ driverState = "READY"
           /\ consecutiveFailures = 0
           /\ totalSuccess = U32(1)
           /\ totalFailures = U32(T)

\* C5 witness: three failures under threshold 3, then one success.
C5_Witness ==
    /\ run = [ phase |-> "failsOk", n |-> 3 ]
    /\ config.offlineThreshold = 3
    /\ prevState = "OFFLINE"
    /\ driverState = "READY"

\* The step just taken was a call of a tracked operation that reached the
\* transport capability on an initialized driver.
TrackedCall ==
    lastOp' \in TrackedOps /\ initialized /\ busCalls' = 1

\* counter' is counter plus one, or counter stays at the largest uint32_t.
IncrementedOrSaturated(before, after) ==
    IF before = maxU32 THEN after = before ELSE after = U32Inc(before)

\* C6: one tracked transaction whose transport outcome is ok, from any
\* initialized state, ends in READY with consecutiveFailures = 0 and
\* totalSuccess one higher (unless saturated), and leaves totalFailures,
\* lastError and lastErrorMs as they were.
C6_SuccessClears ==
    [][ (TrackedCall /\ IsOk(lastOutcome')) =>
            /\ driverState' = "READY"
            /\ consecutiveFailures' = 0
            /\ IncrementedOrSaturated(totalSuccess, totalSuccess')
            /\ UNCHANGED << totalFailures, lastError, lastErrorMs >> ]_vars

\* C6 witness: a tracked success on a driver that was OFFLINE took it to
\* READY in that one call, the last-error record still in place.
C6_Witness ==
    /\ lastOp \in TrackedOps
    /\ busCalls = 1
    /\ IsOk(lastOutcome)
    /\ prevState = "OFFLINE"
    /\ driverState = "READY"
    /\ lastError # StatusOk

\* C7: probe() leaves state, counters, timestamps and last error exactly as
\* they were, whatever it returns.
C7_ProbeUntracked ==
    [][ lastOp' = "probe" => UNCHANGED healthVars ]_vars

\* C7 witness: a probe() that reached the bus and reported an identity
\* mismatch on a DEGRADED driver.
C7_Witness ==
    /\ lastOp = "probe"
    /\ busCalls = 1
    /\ lastResult.code = "CHIP_ID_MISMATCH"
    /\ IsOk(lastOutcome)
    /\ driverState = "DEGRADED"

\* C8: on an initialized driver, a recover() that returns ok was recorded as
\* a success, and a recover() that returns a bus-error, a timeout or an
\* identity mismatch was recorded as a failure: consecutiveFailures and
\* totalFailures one higher (unless saturated), lastError the returned error,
\* state DEGRADED or OFFLINE.
C8_RecoverTrackedBothWays ==
    [][ (lastOp' = "recover" /\ initialized) =>
            /\ IsOk(lastResult') =>
                   /\ IncrementedOrSaturated(totalSuccess, totalSuccess')
                   /\ consecutiveFailures' = 0
                   /\ driverState' = "READY"
            /\ lastResult'.code \in {"I2C_ERROR", "TIMEOUT", "CHIP_ID_MISMATCH"} =>
                   /\ IncrementedOrSaturated(totalFailures, totalFailures')
                   /\ consecutiveFailures' =
                          IF consecutiveFailures = maxU8 THEN maxU8
                          ELSE consecutiveFailures + 1
                   /\ lastError' = lastResult'
                   /\ driverState' \in {"DEGRADED", "OFFLINE"} ]_vars

\* C9: a readRegs, writeRegs or recover call that returns not-initialized,
\* invalid-configuration or invalid-parameter, detected locally or returned
\* by the transport capability, leaves state, counters, timestamps and last
\* error as they were.
C9_ExcludedResultsUncounted ==
    [][ (lastOp' \in TrackedOps /\ lastResult'.code \in ExcludedCodes) =>
            UNCHANGED healthVars ]_vars

\* C9 witness: the transport capability itself returned invalid-parameter to
\* a readRegs on a DEGRADED driver.
C9_Witness ==
    /\ lastOp = "readRegs"
    /\ busCalls = 1
    /\ lastOutcome.code = "INVALID_PARAM"
    /\ lastResult = lastOutcome
    /\ driverState = "DEGRADED"

\* The arguments of a readRegs or writeRegs call pass its validation.
WellFormed(op, a) ==
    /\ a.buf # NullBuf
    /\ a.len > 0
    /\ op = "writeRegs" => a.len <= MAX_WRITE_LEN

\* C10: readRegs and writeRegs on an initialized driver with well-formed
\* arguments return exactly what the transport capability returned, and when
\* that is none of the three excluded classifications exactly one of
\* totalSuccess and totalFailures is one higher (unless saturated).
C10_OneUpdateResultUnchanged ==
    [][ (lastOp' \in {"readRegs", "writeRegs"} /\ initialized
         /\ WellFormed(lastOp', lastArgs')) =>
            /\ busCalls' = 1
            /\ lastResult' = lastOutcome'
            /\ lastOutcome'.code \notin ExcludedCodes =>
                   IF IsOk(lastOutcome')
                   THEN /\ IncrementedOrSaturated(totalSuccess, totalSuccess')
                        /\ UNCHANGED totalFailures
                   ELSE /\ IncrementedOrSaturated(totalFailures, totalFailures')
                        /\ UNCHANGED totalSuccess ]_vars

\* C10 witness: a writeRegs of the largest payload to which the capability
\* answered with a bus error carrying a detail; it came back as it was and
\* was counted once.
C10_Witness ==
    /\ lastOp = "writeRegs"
    /\ lastArgs.len = MAX_WRITE_LEN
    /\ lastOutcome = Status("I2C_ERROR", "transport", 2)
    /\ lastResult = lastOutcome
    /\ totalFailures = U32(1)
    /\ totalSuccess = U32(0)


\* C11: writeRegs on an initialized driver with a non-null buffer: with a
\* payload of exactly MAX_WRITE_LEN bytes the write capability is invoked
\* once and, when it returns ok, the call returns ok; with a longer payload
\* the call returns invalid-parameter, no capability is invoked and state,
\* counters, timestamps and last error stay as they were.
C11_PayloadBound ==
    [][ (lastOp' = "writeRegs" /\ initialized /\ lastArgs'.buf # NullBuf) =>
            /\ lastArgs'.len = MAX_WRITE_LEN =>
                   /\ busCalls' = 1
                   /\ lastFrame'.kind = "write"
                   /\ IsOk(lastOutcome') => lastResult' = StatusOk
            /\ lastArgs'.len > MAX_WRITE_LEN =>
                   /\ lastResult'.code = "INVALID_PARAM"
                   /\ busCalls' = 0
                   /\ lastFrame' = NoFrame
                   /\ UNCHANGED healthVars ]_vars

\* C11 witness: a write of exactly MAX_WRITE_LEN bytes that the capability
\* accepted.
C11_Witness ==
    /\ lastOp = "writeRegs"
    /\ lastArgs.len = MAX_WRITE_LEN
    /\ busCalls = 1
    /\ lastResult = StatusOk

\* C11 witness of the rejected case: one byte beyond the bound, on a driver
\* that has counted failures.
C11_WitnessTooLong ==
    /\ lastOp = "writeRegs"
    /\ lastArgs.len = MAX_WRITE_LEN + 1
    /\ lastResult.code = "INVALID_PARAM"
    /\ busCalls = 0
    /\ driverState = "DEGRADED"


\* The fields of the driver: what a later call can depend on.
driverVars == << config, initialized, healthVars >>

\* C12: end() leaves the state UNINIT and the driver not initialized from
\* every state; a second end() in a row changes nothing of the driver; and
\* end() leaves the counters, timestamps, last error and stored
\* configuration as they were.
C12_EndIdempotent ==
    [][ lastOp' = "end" =>
            /\ driverState' = "UNINIT"
            /\ ~initialized'
            /\ UNCHANGED << config, consecutiveFailures, totalFailures,
                            totalSuccess, lastOkMs, lastErrorMs, lastError >>
            /\ lastOp = "end" => UNCHANGED driverVars ]_vars

\* C12 witness: end() called on a driver that was already shut down, the
\* counters of its session still in place.
C12_Witness ==
    /\ lastOp = "end"
    /\ prevState = "UNINIT"
    /\ driverState = "UNINIT"
    /\ ~initialized
    /\ consecutiveFailures > 0
    /\ totalSuccess # U32(0)


\* The operations that need an initialized driver.
BusOps == {"probe", "recover", "readRegs", "writeRegs"}

\* C13: on an uninitialized driver probe, recover, readRegs and writeRegs
\* return not-initialized whatever their arguments, invoke no transport
\* capability even when a configuration is still stored, and change nothing
\* of the driver; and the state leaves UNINIT only in a begin() that returns
\* ok.
C13_UninitializedRefuses ==
    [][ /\ (lastOp' \in BusOps /\ ~initialized) =>
               /\ lastResult'.code = "NOT_INITIALIZED"
               /\ busCalls' = 0
               /\ lastFrame' = NoFrame
               /\ UNCHANGED driverVars
        /\ ((driverState = "UNINIT" /\ driverState' # "UNINIT")
            \/ (~initialized /\ initialized')) =>
               /\ lastOp' = "begin"
               /\ IsOk(lastResult') ]_vars

\* C13 witness: after end(), with the capabilities of the last session still
\* stored, a writeRegs with a null buffer was answered not-initialized.
C13_Witness ==
    /\ lastOp = "writeRegs"
    /\ ~initialized
    /\ driverState = "UNINIT"
    /\ config.i2cWrite # NULL
    /\ lastArgs.buf = NullBuf
    /\ lastResult.code = "NOT_INITIALIZED"
    /\ busCalls = 0


\* The step just taken counted a failure.
CountedFailure ==
    TrackedCall /\ ~IsOk(lastOutcome') /\ lastOutcome'.code \notin ExcludedCodes

\* C14: between two begin() calls totalSuccess and totalFailures never
\* decrease and stay at 2^32 - 1 once there; consecutiveFailures stays at 255
\* under further failures with the state OFFLINE, and leaves 255 only by a
\* tracked success (or a begin()).
C14_CountersSaturate ==
    [][ lastOp' # "begin" =>
            /\ ~U32Lt(totalSuccess', totalSuccess)
            /\ ~U32Lt(totalFailures', totalFailures)
            /\ totalSuccess = maxU32 => totalSuccess' = maxU32
            /\ totalFailures = maxU32 => totalFailures' = maxU32
            /\ (consecutiveFailures = maxU8 /\ CountedFailure) =>
                   /\ consecutiveFailures' = maxU8
                   /\ driverState' = "OFFLINE"
            /\ (consecutiveFailures = maxU8 /\ consecutiveFailures' # maxU8) =>
                   /\ TrackedCall /\ IsOk(lastOutcome')
                   /\ consecutiveFailures' = 0 ]_vars

\* C14 witness: totalFailures and consecutiveFailures both at their largest
\* value after a further counted failure, the state OFFLINE.
C14_Witness ==
    /\ totalFailures = maxU32
    /\ consecutiveFailures = maxU8
    /\ driverState = "OFFLINE"
    /\ lastOp \in TrackedOps
    /\ busCalls = 1
    /\ lastOutcome.code = "I2C_ERROR"

\* C14 witness for the success counter: at its largest value after a tracked
\* success.
C14_WitnessSuccess ==
    /\ totalSuccess = maxU32
    /\ totalFailures = maxU32
    /\ driverState = "READY"
    /\ IsOk(lastOutcome)


\* The arguments of the call just made pass the operation's validation
\* (probe and recover take none).
ArgsPass ==
    lastOp' \in {"readRegs", "writeRegs"} => WellFormed(lastOp', lastArgs')

\* C15: one call of probe, recover, readRegs or writeRegs invokes a transport
\* capability at most once, and exactly once when the driver is initialized
\* and the arguments pass validation, whatever the health state and whatever
\* the transaction's outcome.
C15_OneTransactionPerCall ==
    [][ lastOp' \in BusOps =>
            /\ busCalls' <= 1
            /\ (initialized /\ ArgsPass) =>
                   /\ busCalls' = 1
                   /\ lastFrame' # NoFrame ]_vars

\* C15 witness: a readRegs on an OFFLINE driver reached the bus once, timed
\* out and left the driver OFFLINE.
C15_Witness ==
    /\ lastOp = "readRegs"
    /\ prevState = "OFFLINE"
    /\ busCalls = 1
    /\ lastOutcome.code = "TIMEOUT"
    /\ driverState = "OFFLINE"


\* The driver is in a session begun with a configured offline threshold of 0.
ZeroThresholdSession == initialized /\ sessionCfg.offlineThreshold = 0

\* What holds in every state of such a session: the stored threshold is 1,
\* the rest of the configuration is as given, and the state is not DEGRADED.
ZeroThresholdStored ==
    ZeroThresholdSession =>
        /\ config = [ sessionCfg EXCEPT !.offlineThreshold = 1 ]
        /\ driverState # "DEGRADED"

\* A begin() with threshold 0 leaves the driver exactly as the same begin()
\* with threshold 1 leaves it.
ZeroBeginsLikeOne ==
    (lastOp = "begin" /\ IsOk(lastResult) /\ lastArgs.cfg.offlineThreshold = 0) =>
        LET one == begin([ lastArgs.cfg EXCEPT !.offlineThreshold = 1 ]) IN
        /\ config = one.config
        /\ initialized = one.initialized
        /\ Health = one.h

\* C16: a configured offline threshold of 0 is stored as 1 by a successful
\* begin(), which leaves the driver exactly as a begin() with threshold 1
\* does, so every later operation behaves alike; the first counted failure
\* after READY takes the state to OFFLINE, and DEGRADED is never reached.
C16_ZeroThresholdIsOne ==
    [][ /\ ZeroThresholdStored'
        /\ ZeroBeginsLikeOne'
        /\ (ZeroThresholdSession /\ driverState = "READY" /\ CountedFailure) =>
               driverState' = "OFFLINE" ]_vars

\* C16 witness: in a session begun with threshold 0 the first counted failure
\* took the READY driver to OFFLINE.
C16_Witness ==
    /\ ZeroThresholdSession
    /\ config.offlineThreshold = 1
    /\ lastOp \in TrackedOps
    /\ prevState = "READY"
    /\ driverState = "OFFLINE"
    /\ consecutiveFailures = 1


\* C17: a begin() that fails leaves the stored configuration as it was before
\* the call; the stored configuration changes only in a begin() that
\* returns ok.
C17_FailedBeginKeepsConfig ==
    [][ /\ (lastOp' = "begin" /\ ~IsOk(lastResult')) => config' = config
        /\ config' # config => (lastOp' = "begin" /\ IsOk(lastResult')) ]_vars

\* C17 witness: a begin() given an invalid configuration has failed while a
\* configuration stored by an earlier begin(), different from the one just
\* given, is still in place.
C17_Witness ==
    /\ lastOp = "begin"
    /\ lastResult.code = "INVALID_CONFIG"
    /\ ~ValidConfig(lastArgs.cfg)
    /\ config = [ sessionCfg EXCEPT !.offlineThreshold =
                                        IF @ = 0 THEN 1 ELSE @ ]
    /\ config # DefaultConfig
    /\ config # lastArgs.cfg


\* C18: tick(nowMs) changes nothing of the driver, whatever the state and the
\* timestamp given: state, initialized flag, counters, timestamps, last error
\* and stored configuration are as before the call, and no transport
\* capability is invoked. A step that leaves all of these unchanged can be
\* inserted anywhere in a sequence of operations without changing what the
\* sequence results in.
C18_TickNoAction ==
    [][ lastOp' = "tick" =>
            /\ UNCHANGED driverVars
            /\ busCalls' = 0
            /\ lastFrame' = NoFrame ]_vars

\* C18 witness: tick() was called with a nonzero timestamp on a DEGRADED
\* driver that has recorded a failure.
C18_Witness ==
    /\ lastOp = "tick"
    /\ lastArgs.nowMs # 0
    /\ prevState = "DEGRADED"
    /\ driverState = "DEGRADED"
    /\ consecutiveFailures > 0
    /\ lastOkMs # lastArgs.nowMs


\* C19: on an initialized driver, writeRegs with a payload of 1..16 bytes
\* issues one write transaction of exactly len + 1 bytes, the start address
\* first and the len payload bytes behind it in order; readRegs with len >= 1
\* issues one write-then-read transaction whose transmit part is the single
\* start-address byte and whose receive length is len.
C19_RegisterFraming ==
    [][ LET a == lastArgs' IN
        /\ (lastOp' = "writeRegs" /\ initialized /\ WellFormed("writeRegs", a)) =>
               /\ busCalls' = 1
               /\ lastFrame'.kind = "write"
               /\ Len(lastFrame'.tx) = a.len + 1
               /\ lastFrame'.tx[1] = a.startReg
               /\ \A i \in 1..a.len : lastFrame'.tx[i + 1] = a.buf.bytes[i]
        /\ (lastOp' = "readRegs" /\ initialized /\ WellFormed("readRegs", a)) =>
               /\ busCalls' = 1
               /\ lastFrame'.kind = "writeRead"
               /\ lastFrame'.tx = << a.startReg >>
               /\ lastFrame'.rxLen = a.len ]_vars

\* C19 witness: a writeRegs of the largest payload has put 17 bytes on the
\* bus, the start address first and the last payload byte at the end.
C19_Witness ==
    /\ lastOp = "writeRegs"
    /\ lastArgs.len = MAX_WRITE_LEN
    /\ busCalls = 1
    /\ lastFrame.kind = "write"
    /\ Len(lastFrame.tx) = MAX_WRITE_LEN + 1
    /\ lastFrame.tx[1] = lastArgs.startReg
    /\ lastFrame.tx[MAX_WRITE_LEN + 1] = lastArgs.buf.bytes[MAX_WRITE_LEN]
    /\ lastArgs.buf.bytes[MAX_WRITE_LEN] # lastArgs.buf.bytes[MAX_WRITE_LEN - 1]

\* A readRegs of more than MAX_WRITE_LEN bytes has gone out as one
\* write-then-read transaction.
C19_WitnessRead ==
    /\ lastOp = "readRegs"
    /\ lastArgs.len > MAX_WRITE_LEN
    /\ busCalls = 1
    /\ lastFrame.kind = "writeRead"
    /\ lastFrame.tx = << lastArgs.startReg >>
    /\ lastFrame.rxLen = lastArgs.len


\* The states recover() is meant to pull the driver out of.
Impaired == {"DEGRADED", "OFFLINE"}

\* C20 as stated: starting in DEGRADED or OFFLINE, no call of begin, tick,
\* end or probe results in state READY, so that of the caller-facing
\* operations recover() alone can restore READY.
C20_OnlyRecoverRestores ==
    [][ (driverState \in Impaired /\ lastOp' \in {"begin", "tick", "end", "probe"}) =>
            driverState' # "READY" ]_vars

\* C20, amended: starting in DEGRADED or OFFLINE, no call of tick, end or
\* probe results in state READY, and a begin() results in READY exactly when
\* it returns ok, as a new session with the counters at zero; within a
\* session recover() is the only caller-facing operation that restores READY.
C20_RecoverOrBeginRestores ==
    [][ /\ (driverState \in Impaired /\ lastOp' \in {"tick", "end", "probe"}) =>
               driverState' # "READY"
        /\ (driverState \in Impaired /\ lastOp' = "begin") =>
               /\ driverState' = "READY" <=> IsOk(lastResult')
               /\ driverState' = "READY" => CountersZero' ]_vars

\* C20 witness: a recover() that returned ok has taken the DEGRADED driver
\* back to READY within its session.
C20_Witness ==
    /\ lastOp = "recover"
    /\ IsOk(lastResult)
    /\ prevState = "DEGRADED"
    /\ driverState = "READY"
    /\ totalFailures # U32(0)

\* A begin() has taken the OFFLINE driver to READY.
C20_WitnessBegin ==
    /\ lastOp = "begin"
    /\ IsOk(lastResult)
    /\ prevState = "OFFLINE"
    /\ driverState = "READY"


\* BME280::state
state == driverState

\* BME280::isOnline
isOnline == driverState = "READY" \/ driverState = "DEGRADED"

\* C21: in every reachable state the driver is initialized if and only if
\* state() is not UNINIT, and isOnline() is true if and only if the driver is
\* initialized and its consecutive failures are below the stored offline
\* threshold.
C21_InitializedAgreesWithState ==
    /\ initialized <=> state # "UNINIT"
    /\ isOnline <=> (initialized /\ consecutiveFailures < config.offlineThreshold)

\* C21 witness: end() has shut down a DEGRADED driver: the failure count it
\* keeps is still below the threshold, and the driver is neither initialized
\* nor online.
C21_Witness ==
    /\ lastOp = "end"
    /\ prevState = "DEGRADED"
    /\ ~initialized
    /\ state = "UNINIT"
    /\ ~isOnline
    /\ consecutiveFailures > 0
    /\ consecutiveFailures < config.offlineThreshold

\* An initialized driver one failure short of its threshold is online.
C21_WitnessOnline ==
    /\ initialized
    /\ isOnline
    /\ state = "DEGRADED"
    /\ consecutiveFailures + 1 = config.offlineThreshold


\* The last-error record agrees with the lifetime failure count, and the
\* failure streak is no longer than the lifetime failure count.
LastErrorConsistent ==
    /\ IsOk(lastError) <=> totalFailures = U32(0)
    /\ ~U32Lt(totalFailures, U32(consecutiveFailures))

\* C22: in every reachable state lastError is ok if and only if
\* totalFailures is 0, and consecutiveFailures <= totalFailures; a tracked
\* failure leaves its own result in lastError; lastError and lastErrorMs
\* change only in a tracked failure or a begin(), so tracked successes,
\* probe(), tick() and end() leave them alone; and every begin() resets them.
C22_LastErrorSticky ==
    /\ LastErrorConsistent
    /\ [][ /\ LastErrorConsistent'
           /\ CountedFailure => lastError' = lastOutcome'
           /\ (lastError' # lastError \/ lastErrorMs' # lastErrorMs) =>
                  (CountedFailure \/ lastOp' = "begin")
           /\ lastOp' = "begin" => (lastError' = StatusOk /\ lastErrorMs' = 0) ]_vars

\* C22 witness: a recover() has succeeded after two failures of the session,
\* the later one a timeout: the streak is back to 0 and the timeout is still
\* the last error.
C22_Witness ==
    /\ lastOp = "recover"
    /\ IsOk(lastOutcome)
    /\ consecutiveFailures = 0
    /\ totalFailures = U32(2)
    /\ lastError.code = "TIMEOUT"
    /\ lastErrorMs # 0


\* The step just taken counted a success.
CountedSuccess == TrackedCall /\ IsOk(lastOutcome')

\* C23: no step takes the state from OFFLINE to DEGRADED; OFFLINE is left to
\* READY only by a tracked success or a begin() that returns ok, and to
\* UNINIT only by end() or a begin() that fails; a step from READY to OFFLINE
\* is a tracked failure under a stored threshold of 1; and DEGRADED is
\* entered only from READY or DEGRADED, by a tracked failure.
C23_AllowedTransitions ==
    [][ /\ ~(driverState = "OFFLINE" /\ driverState' = "DEGRADED")
        /\ (driverState = "OFFLINE" /\ driverState' = "READY") =>
               (CountedSuccess \/ (lastOp' = "begin" /\ IsOk(lastResult')))
        /\ (driverState = "OFFLINE" /\ driverState' = "UNINIT") =>
               (lastOp' = "end" \/ (lastOp' = "begin" /\ ~IsOk(lastResult')))
        /\ (driverState = "READY" /\ driverState' = "OFFLINE") =>
               (CountedFailure /\ config.offlineThreshold = 1)
        /\ driverState' = "DEGRADED" =>
               /\ driverState \in {"READY", "DEGRADED"}
               /\ CountedFailure \/ UNCHANGED healthVars ]_vars

\* C23 witness: with a stored threshold of 2, a further tracked failure of
\* the OFFLINE driver has left it OFFLINE with a streak of 3.
C23_Witness ==
    /\ lastOp \in TrackedOps
    /\ busCalls = 1
    /\ ~IsOk(lastOutcome)
    /\ prevState = "OFFLINE"
    /\ driverState = "OFFLINE"
    /\ config.offlineThreshold = 2
    /\ consecutiveFailures = 3

\* A failed begin() has taken the OFFLINE driver to UNINIT.
C23_WitnessFailedBegin ==
    /\ lastOp = "begin"
    /\ ~IsOk(lastResult)
    /\ prevState = "OFFLINE"
    /\ driverState = "UNINIT"

====
